---- MODULE Spec2Model ----
(***************************************************************************)
(* Model of the PurrPal model lifecycle: the JavaScript ModelManager       *)
(* (lib/managers/ModelManager.ts), the SimplifiedGemmaBridge facade with   *)
(* the MetricsManager, and the simplified native bridge                    *)
(* (ios/GemmaBridge.swift) behind the React Native bridge.  The native     *)
(* module of the simplified interface exists in Swift only; its behaviour  *)
(* stands for the native side on both platforms.                           *)
(*                                                                         *)
(* JavaScript is single threaded: every action of the JavaScript side is   *)
(* one synchronous run of a call from one await to the next, and the       *)
(* continuation of a settled call runs before the next task.  Native       *)
(* methods are reached through the asynchronous React Native bridge        *)
(* (bridgeQ) and do their work on the serial modelQueue; their promise     *)
(* results come back through resp.                                         *)
(*                                                                         *)
(* The host application has MaxCalls calls outstanding at most; a call     *)
(* that has settled is returned to its caller, which may then call again.  *)
(* Fields of a call that the code does not hold (at, cancelled,            *)
(* unloadSeen, handed, tries, waits) record what happened, for the         *)
(* properties: at is the lifecycle state in which the call was made,       *)
(* cancelled that unloadModel was called during the load, unloadSeen that  *)
(* an unload was accepted while the inference was waiting, handed the      *)
(* answer given to loadModel calls that arrived during the load, tries     *)
(* and waits the attempts and the retry delays of the cycle, after the     *)
(* inference calls that were in flight when the inference was requested.   *)
(* The field running of a block of modelQueue tells that the queue has     *)
(* started it; where the specification does not start blocks apart, a      *)
(* block runs in one step.                                                 *)
(***************************************************************************)
EXTENDS Integers, Sequences, FiniteSets, TLC

VARIABLES
    status,        \* ModelManager.status
    config,        \* ModelManager.config
    device,        \* what GemmaBridge.getDeviceInfo reports on this device
    modelFile,     \* what the file system holds at the path of the model
    core,          \* GemmaBridgeCore, the native bridge that loads lazily
    call,          \* the outstanding asynchronous calls of the application
    bridgeQ,       \* native method invocations on their way to the module
    modelQueue,    \* GemmaBridge.modelQueue (serial)
    llmInference,  \* GemmaBridge.llmInference: 0 is nil, else the handle
    resp,          \* the settled promise of each call's pending native method
    metrics,       \* MetricsManager.metrics
    statusListeners,   \* ModelManager.statusListeners
    sessionStartTime,  \* MetricsManager.sessionStartTime
    now                \* what Date.now() reads

vars == <<status, config, device, modelFile, core, call, bridgeQ,
          modelQueue, llmInference, resp, metrics, statusListeners,
          sessionStartTime, now>>

\* All but the native bridge that loads lazily.
managerVars == <<status, config, device, modelFile, call, bridgeQ,
                 modelQueue, llmInference, resp, metrics, statusListeners,
                 sessionStartTime, now>>

jsVars == <<status, config, call, metrics>>
nativeVars == <<bridgeQ, modelQueue, llmInference, resp>>
sessionVars == <<sessionStartTime, now>>

----------------------------------------------------------------------------
(* Bounds of the model *)

\* Calls outstanding at once.
MaxCalls == 2

\* Records the metrics buffer holds before the application clears it.
MaxRecords == 1

Calls == 1..MaxCalls

\* The failures the engine's load is let to end with (a subset of
\* LoadErrors: the code treats every category alike).
EngineFailures == {"OutOfMemory"}

\* Whether the native load finds the model file: the caller has validated it
\* just before.
FileExists == {TRUE}

\* What an inference measures: inferenceTimeMs and tokenCount.
InferenceTimes == {250}
TokenCounts == {10}

----------------------------------------------------------------------------
(* Program constants *)

RetryAttempts == 3
RetryDelay == 2000
MaxHistorySize == 100
MaxPromptLength == 8192

NULL == "null"

\* The engine's load errors and those that are about the backend.
LoadErrors == {"OutOfMemory", "BackendUnsupported", "ArtifactCorrupt", "Unknown"}
BackendErrors == {"OutOfMemory", "BackendUnsupported"}

\* What getDeviceInfo can report: iOS never reports GPU support.  An Android
\* device without GPU support is covered by the fallback UnknownDevice.
Devices ==
    {[platform |-> "ios", supportsGPU |-> FALSE, totalMemoryMB |-> 6144],
     [platform |-> "android", supportsGPU |-> TRUE, totalMemoryMB |-> 8192]}

\* The memory below which the native GPU check refuses the GPU, in GB.
MinGPUMemoryGB == 6

\* A device below that memory whose probe still reports GPU support.
LowMemoryDevice ==
    [platform |-> "android", supportsGPU |-> TRUE, totalMemoryMB |-> 3000]

\* The fallback of getDeviceCapabilities when getDeviceInfo throws.
UnknownDevice ==
    [platform |-> "unknown", supportsGPU |-> FALSE, totalMemoryMB |-> 0]

\* The optional config argument of loadModel, as far as the backend goes.
Prefs == {"none", "CPU", "GPU"}

\* The model file as FileSystem.getInfoAsync reports it: whether it exists,
\* and its size in bytes.
MinModelSize == 1000000
UsualModelFile == [exists |-> TRUE, size |-> 5 * MinModelSize]
ModelFiles ==
    {[exists |-> FALSE, size |-> 0],
     [exists |-> TRUE, size |-> 0],
     [exists |-> TRUE, size |-> MinModelSize - 1],
     [exists |-> TRUE, size |-> MinModelSize],
     UsualModelFile}

\* The promises of the generateResponse calls made of the native bridge
\* that loads lazily.
MaxPromises == 2
Promises == 1..MaxPromises

\* GemmaBridgeCore as constructed: no model, no load asked for, nothing on
\* backgroundExecutor.  seen is what the thread of the callers has seen of
\* the fields that the executor thread writes (they are not volatile);
\* at is the promise whose call is between initializeModelIfNeeded and
\* its look at the fields (0: none); promise is the state of each promise.
InitialCore ==
    [llmInference |-> FALSE,
     isInitializing |-> FALSE,
     modelLoadAttempts |-> 0,
     backgroundExecutor |-> <<>>,
     seen |-> [llmInference |-> FALSE, isInitializing |-> FALSE],
     at |-> 0,
     promise |-> [p \in Promises |-> "none"]]

\* Prompts: empty, usual, too long, holding a null character.
Prompts ==
    {[length |-> 0, blank |-> TRUE, nul |-> FALSE],
     [length |-> 2, blank |-> FALSE, nul |-> FALSE],
     [length |-> MaxPromptLength + 1, blank |-> FALSE, nul |-> FALSE],
     [length |-> 2, blank |-> FALSE, nul |-> TRUE]}

----------------------------------------------------------------------------
(* ModelManager.status *)

InitialStatus ==
    [isLoaded |-> FALSE, isLoading |-> FALSE, loadProgress |-> 0,
     error |-> NULL, modelPath |-> NULL, backend |-> NULL, loadTime |-> -1]

InitialConfig ==
    [useGPU |-> TRUE, autoLoad |-> FALSE,
     retryAttempts |-> RetryAttempts, retryDelay |-> RetryDelay]

\* updateStatus: merge the given fields into the status.
updateStatus(s, updates) ==
    [f \in DOMAIN s |-> IF f \in DOMAIN updates THEN updates[f] ELSE s[f]]

\* A listener whose callback calls its own unsubscribe function: it asks
\* for one notification.  The callbacks of the other listeners leave the
\* subscriptions alone.
Once == 0

\* An unsubscribe function whose splice takes out the entry and those
\* after it.
unsubscribe_Rest(listeners, listener) ==
    IF \E i \in DOMAIN listeners : listeners[i] = listener
    THEN LET index == CHOOSE i \in DOMAIN listeners :
                          /\ listeners[i] = listener
                          /\ \A j \in 1..(i - 1) : listeners[j] # listener
         IN  SubSeq(listeners, 1, index - 1)
    ELSE listeners

\* The function returned by onStatusChange(listener): indexOf finds the
\* first entry of the listener and splice takes it out.
unsubscribe(listeners, listener) ==
    IF \E i \in DOMAIN listeners : listeners[i] = listener
    THEN LET index == CHOOSE i \in DOMAIN listeners :
                          /\ listeners[i] = listener
                          /\ \A j \in 1..(i - 1) : listeners[j] # listener
         IN  SubSeq(listeners, 1, index - 1)
             \o SubSeq(listeners, index + 1, Len(listeners))
    ELSE listeners

\* statusListeners.forEach(listener => listener(status)) from the k-th
\* entry on: the entries are visited by index up to the length the array
\* had when forEach began, an index the array no longer has is passed
\* over, and the callback of an entry runs before the next index is
\* looked at.  The result is the array as the callbacks leave it and the
\* listeners called, in order.
RECURSIVE forEach(_, _, _, _)
forEach(listeners, k, len, called) ==
    IF k > len THEN [listeners |-> listeners, called |-> called]
    ELSE IF k > Len(listeners) THEN forEach(listeners, k + 1, len, called)
    ELSE forEach(IF listeners[k] = Once THEN unsubscribe(listeners, Once)
                 ELSE listeners,
                 k + 1, len, Append(called, listeners[k]))

\* The listeners called by an update of the status.
Called(listeners) == forEach(listeners, 1, Len(listeners), <<>>).called

\* statusListeners after a step of the manager: as the callbacks leave it
\* when the step has updated the status (an update that changes no field
\* is not told from no update), as it was otherwise.
Notified ==
    IF status' = status THEN statusListeners
    ELSE forEach(statusListeners, 1, Len(statusListeners), <<>>).listeners

\* The lifecycle state the status stands for, as the application shows it.
LifecycleState(s) ==
    IF s.isLoading THEN "LOADING"
    ELSE IF s.isLoaded THEN "READY"
    ELSE IF s.error # NULL THEN "ERROR"
    ELSE "UNINITIALIZED"

\* loadProgress of a retry, in percent.
RetryProgress(attempt, attempts) == 50 + (attempt * 30) \div attempts

----------------------------------------------------------------------------
(* Error messages *)

PermissionMessage == "Storage permission is required to load the model"
NotFoundMessage == "Model file not found in Documents folder"
ExtractMessage == "Failed to extract bundled model"
ValidationMessage == "Model file validation failed"

ExhaustedMessage(platform) ==
    IF platform = "ios"
    THEN "iOS model loading failed after all retry attempts"
    ELSE "Android model loading failed after all retry attempts"

\* The message of the native rejection of a load that failed with e.
NativeLoadMessage(e) ==
    CASE e = "OutOfMemory" -> "Failed to load model: OutOfMemory"
      [] e = "BackendUnsupported" -> "Failed to load model: BackendUnsupported"
      [] e = "ArtifactCorrupt" -> "Failed to load model: ArtifactCorrupt"
      [] e = "Unknown" -> "Failed to load model: Unknown"
      [] OTHER -> "Model file not found at path"

\* The engine's error category an error message names, "none" if it names
\* none.
ErrorCategory(msg) ==
    IF \E e \in LoadErrors : msg = NativeLoadMessage(e)
    THEN CHOOSE e \in LoadErrors : msg = NativeLoadMessage(e)
    ELSE "none"

----------------------------------------------------------------------------
(* Calls *)

IdleCall ==
    [op |-> "none", pc |-> "idle", result |-> "none", at |-> "none",
     useGPU |-> FALSE, tries |-> <<>>, waits |-> <<>>,
     error |-> NULL, cancelled |-> FALSE, unloadSeen |-> FALSE,
     handed |-> "none", after |-> {}]

NoResp ==
    [state |-> "none", code |-> NULL, detail |-> NULL, timeMs |-> 0,
     tokens |-> 0, stale |-> FALSE, value |-> FALSE]

\* The JavaScript thread takes its next task when the continuations of the
\* settled calls have run.
Drained == \A c \in Calls : call[c].pc # "done"

\* The slot the next call of the application takes.
FreeSlot(c) ==
    /\ Drained
    /\ call[c].pc = "idle"
    /\ \A d \in Calls : d < c => call[d].pc # "idle"

\* The call c resumes at pc after an await.
Resumes(c, op, pc) ==
    /\ Drained
    /\ call[c].op = op
    /\ call[c].pc = pc

\* The load calls that were accepted and have not settled.
LoadsInFlight ==
    {c \in Calls : call[c].op = "load" /\ call[c].pc \notin {"idle", "done"}}

\* The unload calls whose native unload was requested and has not returned.
UnloadsInFlight ==
    {c \in Calls : call[c].op = "unload" /\ call[c].pc = "native"}

\* The inference calls whose native inference has not answered.
InferencesInFlight ==
    {c \in Calls : call[c].op = "infer" /\ call[c].pc = "native"}

SumSeq(s) ==
    LET RECURSIVE Sum(_)
        Sum(i) == IF i = 0 THEN 0 ELSE s[i] + Sum(i - 1)
    IN  Sum(Len(s))

----------------------------------------------------------------------------
(* Initial state: the managers as constructed, nothing loaded *)

Init ==
    /\ status = InitialStatus
    /\ config = InitialConfig
    /\ device \in Devices
    /\ call = [c \in Calls |-> IdleCall]
    /\ bridgeQ = <<>>
    /\ modelQueue = <<>>
    /\ llmInference = 0
    /\ resp = [c \in Calls |-> NoResp]
    /\ metrics = <<>>
    /\ statusListeners = <<>>
    /\ core = InitialCore
    /\ modelFile = UsualModelFile
    /\ now = 0
    /\ sessionStartTime = now

----------------------------------------------------------------------------
(* ModelManager.loadModel *)

\* A native method invocation handed to the React Native bridge.
NativeCall(method, c, useGPU) ==
    [method |-> method, call |-> c, useGPU |-> useGPU]

ModelPath == "Documents/gemma.task"

\* A loadModel that refuses no call.
AlreadyLoading_Off(s) == FALSE

\* The guard of loadModel: a load is refused while one is in progress.
AlreadyLoading(s) == s.isLoading

\* A catch block that leaves the guard set.
FailureUpdate_KeepsGuard(msg) ==
    [isLoaded |-> FALSE, loadProgress |-> 0, error |-> msg]

\* The status update of the catch block of loadModel.
FailureUpdate(msg) ==
    [isLoaded |-> FALSE, isLoading |-> FALSE, loadProgress |-> 0,
     error |-> msg]

\* A loadModel without its catch block: the error reaches the caller.
FailLoad_Throws(c, msg) ==
    /\ UNCHANGED status
    /\ call' = [call EXCEPT ![c].pc = "done", ![c].result = "throw",
                            ![c].error = msg]

\* The catch block of loadModel: the error message becomes status.error and
\* the call returns false.
FailLoad(c, msg) ==
    /\ status' = updateStatus(status, FailureUpdate(msg))
    /\ call' = [call EXCEPT ![c].pc = "done", ![c].result = "false",
                            ![c].error = msg]

\* loadModel(modelFileName, config?) up to its first await.
LoadModel(c, pref) ==
    /\ FreeSlot(c)
    /\ IF AlreadyLoading(status)
       THEN /\ call' = [d \in Calls |->
                  IF d = c
                  THEN [IdleCall EXCEPT !.op = "load", !.pc = "done",
                                        !.result = "false",
                                        !.at = LifecycleState(status)]
                  ELSE IF d \in LoadsInFlight
                  THEN [call[d] EXCEPT !.handed = "false"]
                  ELSE call[d]]
            /\ UNCHANGED <<status, config>>
       ELSE /\ config' = IF pref = "none" THEN config
                         ELSE [config EXCEPT !.useGPU = (pref = "GPU")]
            /\ status' = updateStatus(status,
                   [isLoading |-> TRUE, loadProgress |-> 0, error |-> NULL])
            /\ call' = [call EXCEPT ![c] =
                  [IdleCall EXCEPT !.op = "load",
                                   !.pc = IF device.platform = "ios"
                                          THEN "caps" ELSE "perm",
                                   !.at = LifecycleState(status)]]
    /\ UNCHANGED <<device, core, modelFile, metrics, sessionVars>>
    /\ statusListeners' = Notified
    /\ UNCHANGED nativeVars

\* loadAndroidModel: hasStoragePermission has answered.
PermissionChecked(c, hasPermission) ==
    /\ Resumes(c, "load", "perm")
    /\ IF hasPermission
       THEN /\ status' = updateStatus(status, [loadProgress |-> 10])
            /\ call' = [call EXCEPT ![c].pc = "caps"]
       ELSE /\ call' = [call EXCEPT ![c].pc = "ask"]
            /\ UNCHANGED status
    /\ UNCHANGED <<config, device, core, modelFile, metrics, sessionVars>>
    /\ statusListeners' = Notified
    /\ UNCHANGED nativeVars

\* loadAndroidModel: requestStoragePermission has answered.
PermissionAnswered(c, permissionGranted) ==
    /\ Resumes(c, "load", "ask")
    /\ IF permissionGranted
       THEN /\ status' = updateStatus(status, [loadProgress |-> 10])
            /\ call' = [call EXCEPT ![c].pc = "caps"]
       ELSE FailLoad(c, PermissionMessage)
    /\ UNCHANGED <<config, device, core, modelFile, metrics, sessionVars>>
    /\ statusListeners' = Notified
    /\ UNCHANGED nativeVars

\* getDeviceCapabilities has answered: the backend of the cycle is chosen.
CapabilitiesKnown(c, deviceInfo) ==
    /\ Resumes(c, "load", "caps")
    /\ call' = [call EXCEPT ![c].pc = "path",
                  ![c].useGPU = (config.useGPU /\ deviceInfo.supportsGPU)]
    /\ status' = IF device.platform = "ios"
                 THEN updateStatus(status, [loadProgress |-> 10])
                 ELSE status
    /\ UNCHANGED <<config, device, core, modelFile, metrics, sessionVars>>
    /\ statusListeners' = Notified
    /\ UNCHANGED nativeVars

\* A path resolution that notes the missing file and lets the load go on.
PathResolved_Late(c, found) ==
    /\ Resumes(c, "load", "path")
    /\ status' = updateStatus(status,
           [loadProgress |-> 30, modelPath |-> ModelPath])
    /\ call' = [call EXCEPT ![c].pc = "valid",
                  ![c].error = IF found THEN NULL
                               ELSE IF device.platform = "ios"
                               THEN ExtractMessage
                               ELSE NotFoundMessage]
    /\ UNCHANGED <<config, device, core, modelFile, metrics, sessionVars>>
    /\ statusListeners' = Notified
    /\ UNCHANGED nativeVars

\* extractBundledModel (iOS) or getModelPath (Android) has answered.
PathResolved(c, found) ==
    /\ Resumes(c, "load", "path")
    /\ IF found
       THEN /\ status' = updateStatus(status,
                   [loadProgress |-> 30, modelPath |-> ModelPath])
            /\ call' = [call EXCEPT ![c].pc = "valid"]
       ELSE FailLoad(c, IF device.platform = "ios" THEN ExtractMessage
                        ELSE NotFoundMessage)
    /\ UNCHANGED <<config, device, core, modelFile, metrics, sessionVars>>
    /\ statusListeners' = Notified
    /\ UNCHANGED nativeVars

----------------------------------------------------------------------------
(* ModelManager.loadModelWithRetry *)

\* The wait before the retry that follows the failed attempt.
nextDelay(attempt, cfg) == cfg.retryDelay

\* The backend flag handed to the engine for the attempt that follows the
\* attempts in tries.
NextUseGPU(useGPU, tries) == useGPU

\* A retry loop that never gives up.
MayRetry_Always(attempt, cfg) == TRUE

\* The loop of loadModelWithRetry: after a failed attempt another one is
\* made, after a wait, while the attempts are not used up.
MayRetry(attempt, cfg) == attempt < cfg.retryAttempts

\* An attempt: GemmaBridge.loadModel(modelPath, useGPU) is invoked.
InvokeLoad(c, record) ==
    /\ bridgeQ' = Append(bridgeQ,
           NativeCall("loadModel", c, NextUseGPU(record.useGPU, record.tries)))
    /\ call' = [call EXCEPT ![c] =
           [record EXCEPT !.pc = "native",
               !.tries = Append(record.tries,
                   [gpu |-> NextUseGPU(record.useGPU, record.tries),
                    outcome |-> "pending"])]]

\* validateModel has answered; when the file is valid the first attempt
\* starts.
Validated(c, isValid) ==
    /\ Resumes(c, "load", "valid")
    /\ IF isValid
       THEN /\ status' = updateStatus(status, [loadProgress |-> 50])
            /\ InvokeLoad(c, call[c])
            /\ UNCHANGED <<modelQueue, llmInference, resp>>
       ELSE /\ FailLoad(c, ValidationMessage)
            /\ UNCHANGED nativeVars
    /\ UNCHANGED <<config, device, core, modelFile, metrics, sessionVars>>
    /\ statusListeners' = Notified

\* The promise of an attempt has settled.  A resolved attempt ends the cycle
\* in success; a rejected one is retried after a wait, or, being the last,
\* makes loadModelWithRetry return false, which the platform loader throws as
\* its own error.
LoadSettled(c) ==
    /\ Resumes(c, "load", "native")
    /\ resp[c].state # "none"
    /\ LET attempt == Len(call[c].tries)
           outcome == IF resp[c].state = "resolved" THEN "ok"
                      ELSE ErrorCategory(resp[c].detail)
           tries == [call[c].tries EXCEPT ![attempt].outcome = outcome]
       IN  IF resp[c].state = "resolved"
           THEN /\ status' = updateStatus(status,
                       [loadTime |-> SumSeq(call[c].waits),
                        isLoaded |-> TRUE, isLoading |-> FALSE,
                        loadProgress |-> 100,
                        backend |-> IF call[c].useGPU THEN "GPU" ELSE "CPU",
                        error |-> NULL])
                /\ call' = [call EXCEPT ![c].pc = "done",
                                        ![c].result = "true",
                                        ![c].tries = tries]
           ELSE IF MayRetry(attempt, config)
           THEN /\ call' = [call EXCEPT ![c].pc = "wait",
                               ![c].tries = tries,
                               ![c].waits = Append(call[c].waits,
                                                nextDelay(attempt, config))]
                /\ UNCHANGED status
           ELSE /\ status' = updateStatus(status,
                       FailureUpdate(ExhaustedMessage(device.platform)))
                /\ call' = [call EXCEPT ![c].pc = "done",
                               ![c].result = "false",
                               ![c].tries = tries,
                               ![c].error = ExhaustedMessage(device.platform)]
    /\ resp' = [resp EXCEPT ![c] = NoResp]
    /\ UNCHANGED <<config, device, core, modelFile, metrics, bridgeQ,
                   modelQueue, llmInference, sessionVars>>
    /\ statusListeners' = Notified

\* The retry timer fires: the progress is updated and the next attempt
\* starts.
RetryTimer(c) ==
    /\ Resumes(c, "load", "wait")
    /\ status' = updateStatus(status,
           [loadProgress |->
               RetryProgress(Len(call[c].tries), config.retryAttempts)])
    /\ InvokeLoad(c, call[c])
    /\ UNCHANGED <<config, device, core, modelFile, metrics, modelQueue,
                   llmInference, resp, sessionVars>>
    /\ statusListeners' = Notified

----------------------------------------------------------------------------
(* The native module: ios/GemmaBridge.swift *)

Job(kind, c, useGPU, handle) ==
    [kind |-> kind, call |-> c, useGPU |-> useGPU, handle |-> handle,
     running |-> FALSE]

Resolved(timeMs, tokens, stale) ==
    [state |-> "resolved", code |-> NULL, detail |-> NULL, timeMs |-> timeMs,
     tokens |-> tokens, stale |-> stale, value |-> TRUE]

\* A promise resolved with the boolean value.
ResolvedWith(value) ==
    [Resolved(0, 0, FALSE) EXCEPT !.value = value]

Rejected(code, detail) ==
    [state |-> "rejected", code |-> code, detail |-> detail, timeMs |-> 0,
     tokens |-> 0, stale |-> FALSE, value |-> FALSE]

\* The handles that outlive a new load: those captured by queued blocks (the
\* loaded one is dropped when it is replaced).
HandlesInUse ==
    {modelQueue[i].handle : i \in DOMAIN modelQueue}

\* The LlmInference a successful load creates.
NewHandle ==
    CHOOSE h \in 1..(MaxCalls + 2) :
        /\ h \notin HandlesInUse
        /\ \A g \in 1..(MaxCalls + 2) : g \notin HandlesInUse => h <= g

\* loadModel(modelPath, useGPU): the work is put on modelQueue.
DispatchLoad ==
    /\ bridgeQ # <<>>
    /\ Head(bridgeQ).method = "loadModel"
    /\ bridgeQ' = Tail(bridgeQ)
    /\ modelQueue' = Append(modelQueue,
           Job("load", Head(bridgeQ).call, Head(bridgeQ).useGPU, 0))
    /\ UNCHANGED <<llmInference, resp, device, core, modelFile,
                   statusListeners, sessionVars>>
    /\ UNCHANGED jsVars

\* The block of loadModel runs on modelQueue: the file may be missing, the
\* engine may throw, or a new LlmInference replaces the handle.
RunLoad(fileExists, e) ==
    /\ modelQueue # <<>>
    /\ Head(modelQueue).kind = "load"
    /\ modelQueue' = Tail(modelQueue)
    /\ LET c == Head(modelQueue).call
       IN  IF ~fileExists
           THEN /\ resp' = [resp EXCEPT ![c] =
                       Rejected("MODEL_NOT_FOUND",
                                NativeLoadMessage("NotFound"))]
                /\ UNCHANGED llmInference
           ELSE IF e = "ok"
           THEN /\ llmInference' = NewHandle
                /\ resp' = [resp EXCEPT ![c] = Resolved(0, 0, FALSE)]
           ELSE /\ resp' = [resp EXCEPT ![c] =
                       Rejected("MODEL_LOAD_FAILED", NativeLoadMessage(e))]
                /\ UNCHANGED llmInference
    /\ UNCHANGED <<bridgeQ, device, core, modelFile, statusListeners,
                   sessionVars>>
    /\ UNCHANGED jsVars

\* The caller of a settled call takes its result.
Return(c) ==
    /\ call[c].pc = "done"
    /\ call' = [d \in Calls |->
                  IF d = c THEN IdleCall
                  ELSE [call[d] EXCEPT !.after = @ \ {c}]]
    /\ UNCHANGED <<status, config, device, core, modelFile, statusListeners,
                   metrics, sessionVars>>
    /\ UNCHANGED nativeVars

----------------------------------------------------------------------------
(* ModelManager.unloadModel *)

\* An unloadModel that always goes to the engine.
NothingToUnload_Off(s) == FALSE

\* The early return of unloadModel: there is nothing to unload.
NothingToUnload(s) == ~s.isLoaded

\* unloadModel() up to its await: nothing is done unless status.isLoaded.
UnloadModel(c) ==
    /\ FreeSlot(c)
    /\ LET loading == LifecycleState(status) = "LOADING"
           accepted == ~NothingToUnload(status)
       IN  /\ call' = [d \in Calls |->
                  IF d = c
                  THEN [IdleCall EXCEPT !.op = "unload",
                           !.pc = IF accepted THEN "native" ELSE "done",
                           !.result = IF accepted THEN "none" ELSE "true",
                           !.at = LifecycleState(status)]
                  ELSE IF d \in LoadsInFlight /\ loading
                  THEN [call[d] EXCEPT !.cancelled = TRUE]
                  ELSE IF d \in InferencesInFlight /\ accepted
                          /\ resp[d].state = "none"
                  THEN [call[d] EXCEPT !.unloadSeen = TRUE]
                  ELSE call[d]]
           /\ bridgeQ' = IF accepted
                         THEN Append(bridgeQ, NativeCall("unloadModel", c, FALSE))
                         ELSE bridgeQ
    /\ UNCHANGED <<status, config, device, core, modelFile, statusListeners,
                   metrics, modelQueue, llmInference, resp, sessionVars>>

\* GemmaBridge.unloadModel has resolved: the status is reset.
UnloadSettled(c) ==
    /\ Resumes(c, "unload", "native")
    /\ resp[c].state = "resolved"
    /\ status' = updateStatus(status,
           [isLoaded |-> FALSE, isLoading |-> FALSE, loadProgress |-> 0,
            error |-> NULL, modelPath |-> NULL, backend |-> NULL,
            loadTime |-> -1])
    /\ call' = [call EXCEPT ![c].pc = "done", ![c].result = "true"]
    /\ resp' = [resp EXCEPT ![c] = NoResp]
    /\ UNCHANGED <<config, device, core, modelFile, metrics, bridgeQ,
                   modelQueue, llmInference, sessionVars>>
    /\ statusListeners' = Notified

\* unloadModel: the work is put on modelQueue.
DispatchUnload ==
    /\ bridgeQ # <<>>
    /\ Head(bridgeQ).method = "unloadModel"
    /\ bridgeQ' = Tail(bridgeQ)
    /\ modelQueue' = Append(modelQueue,
           Job("unload", Head(bridgeQ).call, FALSE, 0))
    /\ UNCHANGED <<llmInference, resp, device, core, modelFile,
                   statusListeners, sessionVars>>
    /\ UNCHANGED jsVars

\* The block of unloadModel runs on modelQueue: the handle is dropped.
RunUnload ==
    /\ modelQueue # <<>>
    /\ Head(modelQueue).kind = "unload"
    /\ modelQueue' = Tail(modelQueue)
    /\ llmInference' = 0
    /\ resp' = [resp EXCEPT ![Head(modelQueue).call] = Resolved(0, 0, FALSE)]
    /\ UNCHANGED <<bridgeQ, device, core, modelFile, statusListeners,
                   sessionVars>>
    /\ UNCHANGED jsVars

----------------------------------------------------------------------------
(* SimplifiedGemmaBridge.generateResponse and the MetricsManager *)

EmptyPromptMessage == "Prompt cannot be empty"
LongPromptMessage == "Prompt is too long (max 8192 characters)"
NulPromptMessage == "Prompt contains null characters"
NotLoadedMessage == "Model is not loaded"
InferenceMessage == "Inference failed"

\* validateInput: the error of the prompt, NULL when it is valid.
validateInput(prompt) ==
    IF prompt.length = 0 \/ prompt.blank THEN EmptyPromptMessage
    ELSE IF prompt.length > MaxPromptLength THEN LongPromptMessage
    ELSE IF prompt.nul THEN NulPromptMessage
    ELSE NULL

\* recordInference without the statement that maintains the maximum history
\* size.
recordInference_NoEvict(history, rawResult, issuedAt) ==
    Append(history,
           [inferenceTimeMs |-> rawResult.timeMs,
            tokenCount |-> rawResult.tokens,
            tokensPerSecond |->
                (rawResult.tokens * 1000) \div rawResult.timeMs,
            issuedAt |-> issuedAt])

\* recordInference: the record is pushed and the history keeps its last
\* MaxHistorySize records.  issuedAt is the lifecycle state in which the
\* recorded call was issued.
recordInference(history, rawResult, issuedAt) ==
    LET record == [inferenceTimeMs |-> rawResult.timeMs,
                   tokenCount |-> rawResult.tokens,
                   tokensPerSecond |->
                       (rawResult.tokens * 1000) \div rawResult.timeMs,
                   issuedAt |-> issuedAt]
        pushed == Append(history, record)
    IN  IF Len(pushed) > MaxHistorySize
        THEN SubSeq(pushed, Len(pushed) - MaxHistorySize + 1, Len(pushed))
        ELSE pushed

\* The inferences recorded and in flight are fewer than limit.
RoomFor(limit) == Len(metrics) + Cardinality(InferencesInFlight) < limit

\* generateResponse(prompt) up to its await.
GenerateResponse(c, prompt) ==
    /\ FreeSlot(c)
    /\ IF validateInput(prompt) # NULL
       THEN /\ call' = [call EXCEPT ![c] =
                  [IdleCall EXCEPT !.op = "infer", !.pc = "done",
                                   !.result = "throw",
                                   !.error = validateInput(prompt),
                                   !.at = LifecycleState(status)]]
            /\ UNCHANGED bridgeQ
       ELSE /\ call' = [call EXCEPT ![c] =
                  [IdleCall EXCEPT !.op = "infer", !.pc = "native",
                                   !.at = LifecycleState(status),
                                   !.unloadSeen = (UnloadsInFlight # {}),
                                   !.after = InferencesInFlight]]
            /\ bridgeQ' = Append(bridgeQ,
                   NativeCall("generateResponse", c, FALSE))
    /\ UNCHANGED <<status, config, device, core, modelFile, statusListeners,
                   metrics, modelQueue, llmInference, resp, sessionVars>>

\* A facade that writes the error of a failed inference to the status.
InferSettled_NotesError(c) ==
    /\ Resumes(c, "infer", "native")
    /\ resp[c].state # "none"
    /\ IF resp[c].state = "resolved"
       THEN /\ metrics' = recordInference(metrics, resp[c], call[c].at)
            /\ call' = [call EXCEPT ![c].pc = "done", ![c].result = "ok"]
            /\ UNCHANGED status
       ELSE /\ call' = [call EXCEPT ![c].pc = "done", ![c].result = "throw",
                                    ![c].error = resp[c].detail]
            /\ status' = updateStatus(status,
                   [isLoaded |-> FALSE, error |-> resp[c].detail])
            /\ UNCHANGED metrics
    /\ resp' = [resp EXCEPT ![c] = NoResp]
    /\ UNCHANGED <<config, device, core, modelFile, bridgeQ, modelQueue,
                   llmInference, sessionVars>>
    /\ statusListeners' = Notified

\* The native generateResponse has settled: a result is recorded, a
\* rejection is thrown to the caller.
InferSettled(c) ==
    /\ Resumes(c, "infer", "native")
    /\ resp[c].state # "none"
    /\ IF resp[c].state = "resolved"
       THEN /\ metrics' = recordInference(metrics, resp[c], call[c].at)
            /\ call' = [call EXCEPT ![c].pc = "done", ![c].result = "ok"]
       ELSE /\ call' = [call EXCEPT ![c].pc = "done", ![c].result = "throw",
                                    ![c].error = resp[c].detail]
            /\ UNCHANGED metrics
    /\ resp' = [resp EXCEPT ![c] = NoResp]
    /\ UNCHANGED <<status, config, device, core, modelFile, statusListeners,
                   bridgeQ, modelQueue, llmInference, sessionVars>>

\* A clearHistory that empties the history and leaves the session clock.
ClearHistory_KeepsClock ==
    /\ Drained
    /\ metrics # <<>> \/ sessionStartTime # now
    /\ metrics' = <<>>
    /\ UNCHANGED <<status, config, device, core, modelFile, statusListeners,
                   call, sessionVars>>
    /\ UNCHANGED nativeVars

\* clearMetrics: clearHistory empties the history and restarts the session
\* at the present reading of the clock (a call that would change neither
\* is left out).
ClearHistory ==
    /\ Drained
    /\ metrics # <<>> \/ sessionStartTime # now
    /\ metrics' = <<>>
    /\ sessionStartTime' = now
    /\ UNCHANGED <<status, config, device, core, modelFile, statusListeners,
                   call, now>>
    /\ UNCHANGED nativeVars

\* The native generateResponse: without a handle the call is rejected at
\* once, else the inference is put on modelQueue with the handle it found.
DispatchGenerate ==
    /\ bridgeQ # <<>>
    /\ Head(bridgeQ).method = "generateResponse"
    /\ bridgeQ' = Tail(bridgeQ)
    /\ IF llmInference = 0
       THEN /\ resp' = [resp EXCEPT ![Head(bridgeQ).call] =
                   Rejected("MODEL_NOT_LOADED", NotLoadedMessage)]
            /\ UNCHANGED modelQueue
       ELSE /\ modelQueue' = Append(modelQueue,
                   Job("infer", Head(bridgeQ).call, FALSE, llmInference))
            /\ UNCHANGED resp
    /\ UNCHANGED <<llmInference, device, core, modelFile, statusListeners,
                   sessionVars>>
    /\ UNCHANGED jsVars

\* The block of generateResponse runs on modelQueue against the handle it
\* captured; stale tells that this is no longer the loaded handle.
RunInfer ==
    /\ modelQueue # <<>>
    /\ Head(modelQueue).kind = "infer"
    /\ modelQueue' = Tail(modelQueue)
    /\ LET c == Head(modelQueue).call
           stale == Head(modelQueue).handle # llmInference
       IN  \/ \E t \in InferenceTimes, n \in TokenCounts :
                 resp' = [resp EXCEPT ![c] = Resolved(t, n, stale)]
           \/ resp' = [resp EXCEPT ![c] =
                  Rejected("INFERENCE_ERROR", InferenceMessage)]
    /\ UNCHANGED <<bridgeQ, llmInference, device, core, modelFile,
                   statusListeners, sessionVars>>
    /\ UNCHANGED jsVars

----------------------------------------------------------------------------
(* Specifications *)

UnloadSteps ==
    \/ \E c \in Calls : UnloadModel(c)
    \/ \E c \in Calls : UnloadSettled(c)
    \/ DispatchUnload
    \/ RunUnload

InferenceSteps ==
    \/ \E c \in Calls, prompt \in Prompts :
          RoomFor(MaxRecords) /\ GenerateResponse(c, prompt)
    \/ \E c \in Calls : InferSettled(c)
    \/ ClearHistory
    \/ DispatchGenerate
    \/ RunInfer

\* Concurrent loadModel calls, in every environment.
NextLoad ==
    \/ \E c \in Calls, pref \in Prefs : LoadModel(c, pref)
    \/ \E c \in Calls, hasPermission \in BOOLEAN :
          PermissionChecked(c, hasPermission)
    \/ \E c \in Calls, permissionGranted \in BOOLEAN :
          PermissionAnswered(c, permissionGranted)
    \/ \E c \in Calls, deviceInfo \in {device, UnknownDevice} :
          CapabilitiesKnown(c, deviceInfo)
    \/ \E c \in Calls, found \in BOOLEAN : PathResolved(c, found)
    \/ \E c \in Calls, isValid \in BOOLEAN : Validated(c, isValid)
    \/ \E c \in Calls : LoadSettled(c)
    \/ \E c \in Calls : RetryTimer(c)
    \/ DispatchLoad
    \/ \E fileExists \in FileExists, e \in {"ok"} \cup EngineFailures :
          RunLoad(fileExists, e)
    \/ \E c \in Calls : Return(c)

SpecLoad == Init /\ [][NextLoad]_vars

\* The steps of a load that the program and the platform's services take on
\* their own: all but the calls of the application and the user's answer to
\* the permission prompt.
ProgramLoadSteps ==
    \/ \E c \in Calls, hasPermission \in BOOLEAN :
          PermissionChecked(c, hasPermission)
    \/ \E c \in Calls, deviceInfo \in {device, UnknownDevice} :
          CapabilitiesKnown(c, deviceInfo)
    \/ \E c \in Calls, found \in BOOLEAN : PathResolved(c, found)
    \/ \E c \in Calls, isValid \in BOOLEAN : Validated(c, isValid)
    \/ \E c \in Calls : LoadSettled(c)
    \/ \E c \in Calls : RetryTimer(c)
    \/ DispatchLoad
    \/ \E fileExists \in FileExists, e \in {"ok"} \cup EngineFailures :
          RunLoad(fileExists, e)
    \/ \E c \in Calls : Return(c)

\* Concurrent loadModel calls where the program's own steps are not put off
\* for ever; the user may leave the permission prompt unanswered.
SpecLoadFair == Init /\ [][NextLoad]_vars /\ WF_vars(ProgramLoadSteps)

\* Concurrent loadModel calls on the device LowMemoryDevice.
InitLowMemory ==
    /\ status = InitialStatus
    /\ config = InitialConfig
    /\ device = LowMemoryDevice
    /\ call = [c \in Calls |-> IdleCall]
    /\ bridgeQ = <<>>
    /\ modelQueue = <<>>
    /\ llmInference = 0
    /\ resp = [c \in Calls |-> NoResp]
    /\ metrics = <<>>
    /\ statusListeners = <<>>
    /\ core = InitialCore
    /\ modelFile = UsualModelFile
    /\ now = 0
    /\ sessionStartTime = now

SpecLowMemory == InitLowMemory /\ [][NextLoad]_vars

\* loadModel and unloadModel calls, in every environment.
NextLifecycle ==
    \/ NextLoad
    \/ UnloadSteps

SpecLifecycle == Init /\ [][NextLifecycle]_vars

\* The application as it calls the facade: loadModel without a config,
\* unloadModel, generateResponse and clearMetrics, where the permission is
\* granted and the model file is in place and valid.
Next ==
    \/ \E c \in Calls : LoadModel(c, "none")
    \/ \E c \in Calls, hasPermission \in BOOLEAN :
          PermissionChecked(c, hasPermission)
    \/ \E c \in Calls : PermissionAnswered(c, TRUE)
    \/ \E c \in Calls : CapabilitiesKnown(c, device)
    \/ \E c \in Calls : PathResolved(c, TRUE)
    \/ \E c \in Calls : Validated(c, TRUE)
    \/ \E c \in Calls : LoadSettled(c)
    \/ \E c \in Calls : RetryTimer(c)
    \/ DispatchLoad
    \/ \E fileExists \in FileExists, e \in {"ok"} \cup EngineFailures :
          RunLoad(fileExists, e)
    \/ \E c \in Calls : Return(c)
    \/ UnloadSteps
    \/ InferenceSteps

Spec == Init /\ [][Next]_vars

----------------------------------------------------------------------------
(* Properties of concurrent loadModel calls *)

\* The calls for which the engine's load is requested or running.
EngineLoads ==
    {bridgeQ[i].call : i \in {j \in DOMAIN bridgeQ :
                                 bridgeQ[j].method = "loadModel"}}
    \cup {modelQueue[i].call : i \in {j \in DOMAIN modelQueue :
                                         modelQueue[j].kind = "load"}}

\* C1: whatever the interleaving of concurrent loadModel calls, at most one
\* of them is loading at any time and the engine's load is never requested
\* or running for two calls at once.
C1_NoDuplicateLoads ==
    /\ Cardinality(LoadsInFlight) <= 1
    /\ Cardinality(EngineLoads) <= 1
    /\ EngineLoads \subseteq LoadsInFlight

\* A loadModel call arrived while the engine's load of another call was on
\* modelQueue.
C1_SecondCallDuringEngineLoad ==
    \E c, d \in Calls :
        /\ c \in EngineLoads
        /\ modelQueue # <<>>
        /\ call[d].op = "load"
        /\ call[d].pc = "done"
        /\ call[d].at = "LOADING"

\* C3: the loadModel calls that arrive while a load is in flight receive
\* that load's eventual result (handed is what they were answered).
C3_Coalesced ==
    \A d \in Calls :
        (call[d].op = "load" /\ call[d].pc = "done"
             /\ call[d].handed # "none") =>
            call[d].handed = call[d].result

\* C4: a loadModel call made while the controller is READY returns without
\* invoking the engine's load.
C4_ReadyLoadReturns ==
    \A c \in Calls :
        (call[c].op = "load" /\ call[c].at = "READY") =>
            /\ call[c].tries = <<>>
            /\ c \notin EngineLoads

\* C8: when every attempt of a cycle has failed with OutOfMemory and the
\* retries are exhausted, the controller is in ERROR and status.error
\* carries the category OutOfMemory.
C8_ErrorCarriesCategory ==
    \A c \in Calls :
        (/\ call[c].op = "load"
         /\ call[c].pc = "done"
         /\ Len(call[c].tries) = config.retryAttempts
         /\ \A i \in DOMAIN call[c].tries :
               call[c].tries[i].outcome = "OutOfMemory") =>
            /\ LifecycleState(status) = "ERROR"
            /\ ErrorCategory(status.error) = "OutOfMemory"

\* C9: within a cycle, no attempt that follows an attempt failed with a
\* backend-related error uses the GPU.
C9_CpuAfterBackendFailure ==
    \A c \in Calls :
        call[c].op = "load" =>
            \A i, j \in DOMAIN call[c].tries :
                (i < j /\ call[c].tries[i].outcome \in BackendErrors) =>
                    ~call[c].tries[j].gpu

\* C10: within a cycle, the wait after a failed attempt is longer than the
\* wait after the attempt before it.
C10_DelayGrows ==
    \A c \in Calls :
        call[c].op = "load" =>
            \A i, j \in DOMAIN call[c].waits :
                i < j => call[c].waits[i] < call[c].waits[j]

----------------------------------------------------------------------------
(* Properties of unloadModel and generateResponse *)

\* C2: a load during which unloadModel was called in the LOADING phase has
\* its result discarded: it never settles as a success that leaves the
\* controller loaded.
C2_CancelledLoadDiscarded ==
    \A c \in Calls :
        (call[c].op = "load" /\ call[c].cancelled) =>
            ~(call[c].pc = "done" /\ call[c].result = "true"
                  /\ status.isLoaded)

\* The calls whose inference is on modelQueue.
EngineInferences ==
    {modelQueue[i].call : i \in {j \in DOMAIN modelQueue :
                                    modelQueue[j].kind = "infer"}}

\* C5: a generateResponse call made in a lifecycle state other than READY
\* is neither queued for the engine nor answered with a result.
C5_NotReadyRejected ==
    \A c \in Calls :
        (call[c].op = "infer" /\ call[c].at # "READY") =>
            /\ c \notin EngineInferences
            /\ resp[c].state # "resolved"
            /\ call[c].result # "ok"

\* C6: a generateResponse call made while READY that was waiting when an
\* unload was accepted, or was made while the unload was in progress, is not
\* served by the engine.
C6_UnloadFailsInferences ==
    \A c \in Calls :
        (call[c].op = "infer" /\ call[c].at = "READY"
             /\ call[c].unloadSeen) =>
            /\ resp[c].state # "resolved"
            /\ call[c].result # "ok"

\* C7: every record of the metrics history belongs to a call that was made
\* in the lifecycle state READY.
C7_RecordsOnlyWhenReady ==
    \A i \in DOMAIN metrics : metrics[i].issuedAt = "READY"

----------------------------------------------------------------------------
(* Properties of one load cycle *)

\* The invocations of the engine's load made for the call c so far.
Invocations(c) == Len(call[c].tries)

\* C11: a load cycle invokes the engine's load at most config.retryAttempts
\* times, and no attempt follows one that succeeded.
C11_AtMostMaxAttempts ==
    \A c \in Calls :
        call[c].op = "load" =>
            /\ Invocations(c) <= config.retryAttempts
            /\ \A i \in DOMAIN call[c].tries :
                   call[c].tries[i].outcome = "ok" => i = Invocations(c)
            /\ (call[c].pc = "done" /\ call[c].result = "true") =>
                   /\ Invocations(c) >= 1
                   /\ call[c].tries[Invocations(c)].outcome = "ok"

\* A cycle gave up after config.retryAttempts failed attempts.
C11_GaveUpAfterLastAttempt ==
    \E c \in Calls :
        /\ call[c].op = "load"
        /\ call[c].pc = "done"
        /\ call[c].result = "false"
        /\ Invocations(c) = config.retryAttempts
        /\ call[c].tries[Invocations(c)].outcome # "ok"

\* C12: on a device with less memory than the GPU minimum no attempt of a
\* load uses the GPU and the status never reports the GPU backend.
C12_NoGPUBelowMinimum ==
    device.totalMemoryMB < MinGPUMemoryGB * 1024 =>
        /\ status.backend # "GPU"
        /\ \A c \in Calls :
               call[c].op = "load" =>
                   \A i \in DOMAIN call[c].tries : ~call[c].tries[i].gpu

\* C13: a load that waits for the user's answer to the permission prompt
\* does not wait for ever: it goes on or fails even if the user never
\* answers.
C13_PermissionWaitEnds ==
    \A c \in Calls : (call[c].pc = "ask") ~> (call[c].pc # "ask")

\* C14: when an accepted loadModel call has settled, in success or in any
\* failure, status.isLoading is false, so that the guard lets the next
\* loadModel call in.
C14_GuardReleased ==
    \A c \in Calls :
        (call[c].op = "load" /\ call[c].pc = "done"
             /\ call[c].at # "LOADING") =>
            /\ ~status.isLoading
            /\ ~AlreadyLoading(status)

\* An accepted loadModel call has settled in a failure that is not retried.
C14_SettledWithoutRetry ==
    \E c \in Calls :
        /\ call[c].op = "load"
        /\ call[c].pc = "done"
        /\ call[c].at # "LOADING"
        /\ call[c].error = PermissionMessage

----------------------------------------------------------------------------
(* Properties of unloadModel *)

\* C15: an unloadModel call made in READY or in ERROR that has returned
\* true has released the handle and left the controller UNINITIALIZED, with
\* no error and no backend.
C15_UnloadLeavesUninitialized ==
    \A c \in Calls :
        (call[c].op = "unload" /\ call[c].pc = "done"
             /\ call[c].result = "true"
             /\ call[c].at \in {"READY", "ERROR"}) =>
            /\ LifecycleState(status) = "UNINITIALIZED"
            /\ status.error = NULL
            /\ status.backend = NULL
            /\ llmInference = 0

\* C16: an unloadModel call made in UNINITIALIZED returns true at once,
\* requests nothing of the engine and leaves the status as it is.
C16_UnloadNoOp ==
    [][\A c \in Calls :
          (call[c].pc = "idle" /\ call'[c].op = "unload"
               /\ LifecycleState(status) = "UNINITIALIZED") =>
              /\ call'[c].pc = "done"
              /\ call'[c].result = "true"
              /\ status' = status
              /\ bridgeQ' = bridgeQ
              /\ modelQueue' = modelQueue
              /\ llmInference' = llmInference]_vars

\* An unloadModel call made in UNINITIALIZED has returned.
C16_UnloadedNothing ==
    \E c \in Calls :
        /\ call[c].op = "unload"
        /\ call[c].pc = "done"
        /\ call[c].at = "UNINITIALIZED"
        /\ call[c].result = "true"

----------------------------------------------------------------------------
(* MetricsManager: the queries over the retained history *)

\* Averages are exact fractions num/den with den > 0, so that the comparison
\* of isPerformanceDegrading is decided without rounding.
Fraction(num, den) == [num |-> num, den |-> den]

FractionMinus(a, b) == Fraction(a.num * b.den - b.num * a.den, a.den * b.den)

FractionTimes(a, b) == Fraction(a.num * b.num, a.den * b.den)

FractionGreater(a, b) == a.num * b.den > b.num * a.den

\* Array.prototype.slice(-count): the last count elements, the whole array
\* when it is shorter; slice(-0) is slice(0), the whole array.
sliceLast(s, count) ==
    IF count = 0 \/ count >= Len(s) THEN s
    ELSE SubSeq(s, Len(s) - count + 1, Len(s))

\* average: 0 for no numbers, else their sum over their count.
average(numbers) ==
    IF Len(numbers) = 0 THEN Fraction(0, 1)
    ELSE Fraction(SumSeq(numbers), Len(numbers))

\* getRollingAverage(metric, windowSize): the average of the metric over the
\* last windowSize records.
getRollingAverage(history, metric, windowSize) ==
    IF Len(history) = 0 THEN Fraction(0, 1)
    ELSE LET recentMetrics == sliceLast(history, windowSize)
             values == [i \in 1..Len(recentMetrics) |->
                            recentMetrics[i][metric]]
         IN  average(values)

DefaultWindowSize == 5
DegradationFactor == Fraction(12, 10)

\* isPerformanceDegrading without its guard on the number of records.
isPerformanceDegrading_NoGuard(history, windowSize) ==
    LET recentAvg == getRollingAverage(history, "inferenceTimeMs", windowSize)
        previousAvg ==
            FractionMinus(
                getRollingAverage(history, "inferenceTimeMs", windowSize * 2),
                recentAvg)
    IN  FractionGreater(recentAvg,
                        FractionTimes(previousAvg, DegradationFactor))

\* An isPerformanceDegrading that compares the recent average with the
\* rolling average of the last 2 * windowSize records.
isPerformanceDegrading_WholeWindow(history, windowSize) ==
    IF Len(history) < windowSize * 2 THEN FALSE
    ELSE FractionGreater(
             getRollingAverage(history, "inferenceTimeMs", windowSize),
             FractionTimes(
                 getRollingAverage(history, "inferenceTimeMs",
                                   windowSize * 2),
                 DegradationFactor))

\* isPerformanceDegrading(windowSize): previousAvg is the rolling average of
\* the last 2 * windowSize records minus recentAvg.
isPerformanceDegrading(history, windowSize) ==
    IF Len(history) < windowSize * 2 THEN FALSE
    ELSE LET recentAvg ==
                 getRollingAverage(history, "inferenceTimeMs", windowSize)
             previousAvg ==
                 FractionMinus(
                     getRollingAverage(history, "inferenceTimeMs",
                                       windowSize * 2),
                     recentAvg)
         IN  FractionGreater(recentAvg,
                             FractionTimes(previousAvg, DegradationFactor))

\* The durations of the retained records, oldest first.
Durations(history) ==
    [i \in 1..Len(history) |-> history[i].inferenceTimeMs]

----------------------------------------------------------------------------
(* The metrics manager on its own: results of 100 ms and 300 ms recorded in
   any order, and the history cleared *)

MaxSamples == 10
SampleTimes == {100, 300}
SampleTokens == 3
WindowSizes == 1..DefaultWindowSize

\* recordInference(rawResult) called with a result of timeMs milliseconds.
RecordSample(timeMs) ==
    /\ Drained
    /\ Len(metrics) < MaxSamples
    /\ metrics' = recordInference(metrics,
                      Resolved(timeMs, SampleTokens, FALSE),
                      LifecycleState(status))
    /\ UNCHANGED <<status, config, device, core, modelFile, statusListeners,
                   call, sessionVars>>
    /\ UNCHANGED nativeVars

RecordSamples == \E timeMs \in SampleTimes : RecordSample(timeMs)

NextDegradation ==
    \/ RecordSamples
    \/ ClearHistory

SpecDegradation == Init /\ [][NextDegradation]_vars

\* The last windowSize durations, and the windowSize durations before them.
RecentWindow(history, windowSize) ==
    SubSeq(Durations(history), Len(history) - windowSize + 1, Len(history))

PreviousWindow(history, windowSize) ==
    SubSeq(Durations(history), Len(history) - 2 * windowSize + 1,
           Len(history) - windowSize)

\* C17: with at least 2 * windowSize records retained,
\* isPerformanceDegrading(windowSize) is true only when the mean duration of
\* the last windowSize records is more than 1.2 times the mean duration of
\* the windowSize records before them (both means are over windowSize
\* records, so the sums are compared).
C17_DegradingOnlyWhenSlower ==
    \A windowSize \in WindowSizes :
        (Len(metrics) >= 2 * windowSize
         /\ isPerformanceDegrading(metrics, windowSize))
        => 10 * SumSeq(RecentWindow(metrics, windowSize))
               > 12 * SumSeq(PreviousWindow(metrics, windowSize))


\* Ten records of 100 ms then 300 ms have been recorded.
DegradingSequence ==
    <<100, 100, 100, 100, 100, 300, 300, 300, 300, 300>>

\* C18: isPerformanceDegrading(windowSize) is false whenever fewer than
\* 2 * windowSize records are retained, and true with windowSize 5 once the
\* durations 100 (five times) then 300 (five times) have been recorded.
C18_GuardAndSyntheticSequence ==
    /\ \A windowSize \in WindowSizes :
           Len(metrics) < 2 * windowSize
           => ~isPerformanceDegrading(metrics, windowSize)
    /\ Durations(metrics) = DegradingSequence
       => isPerformanceDegrading(metrics, DefaultWindowSize)

\* The synthetic sequence is recorded and the query with windowSize 5
\* answers true, while the query with fewer records than two windows had
\* answered false on the way.
C18_SyntheticSequenceRecorded ==
    /\ Durations(metrics) = DegradingSequence
    /\ isPerformanceDegrading(metrics, DefaultWindowSize)
    /\ ~isPerformanceDegrading(SubSeq(metrics, 1, 2 * DefaultWindowSize - 1),
                               DefaultWindowSize)

----------------------------------------------------------------------------
(* The retained history, its statistics and its export *)

MinOf(numbers) ==
    CHOOSE n \in {numbers[i] : i \in DOMAIN numbers} :
        \A i \in DOMAIN numbers : n <= numbers[i]

MaxOf(numbers) ==
    CHOOSE n \in {numbers[i] : i \in DOMAIN numbers} :
        \A i \in DOMAIN numbers : n >= numbers[i]

\* getPerformanceStats (sessionStartTime, a wall-clock reading, is left out).
getPerformanceStats(history) ==
    IF Len(history) = 0
    THEN [totalInferences |-> 0,
          averageInferenceTime |-> Fraction(0, 1),
          averageTokensPerSecond |-> Fraction(0, 1),
          totalTokens |-> 0,
          fastestInference |-> 0,
          slowestInference |-> 0,
          lastInferenceTime |-> 0]
    ELSE LET inferenceTimes == Durations(history)
             tokensPerSecond ==
                 [i \in 1..Len(history) |-> history[i].tokensPerSecond]
             tokenCounts ==
                 [i \in 1..Len(history) |-> history[i].tokenCount]
         IN  [totalInferences |-> Len(history),
              averageInferenceTime |-> average(inferenceTimes),
              averageTokensPerSecond |-> average(tokensPerSecond),
              totalTokens |-> SumSeq(tokenCounts),
              fastestInference |-> MinOf(inferenceTimes),
              slowestInference |-> MaxOf(inferenceTimes),
              lastInferenceTime |-> history[Len(history)].inferenceTimeMs]

\* exportMetrics, called when the clock reads endTime in a session started
\* at startTime: the session times, the statistics and a copy of the
\* retained records (the percentiles are left out).
exportMetrics(history, startTime, endTime) ==
    [sessionInfo |-> [startTime |-> startTime, endTime |-> endTime,
                      duration |-> endTime - startTime],
     performanceStats |-> getPerformanceStats(history),
     allMetrics |-> history]

MaxArrivals == 102
ArrivalTimeMs == 100

\* The number of the last result recorded since the history was cleared:
\* the k-th result recorded carries tokenCount = k.
LastArrival ==
    IF metrics = <<>> THEN 0 ELSE metrics[Len(metrics)].tokenCount

\* recordInference(rawResult) called with the next result.
RecordArrival ==
    /\ Drained
    /\ LastArrival < MaxArrivals
    /\ metrics' = recordInference(metrics,
                      Resolved(ArrivalTimeMs, LastArrival + 1, FALSE),
                      LifecycleState(status))
    /\ UNCHANGED <<status, config, device, core, modelFile, statusListeners,
                   call, sessionVars>>
    /\ UNCHANGED nativeVars

NextHistory ==
    \/ RecordArrival
    \/ ClearHistory

SpecHistory == Init /\ [][NextHistory]_vars

\* C19: after any sequence of recordInference and clearHistory calls the
\* history holds at most MaxHistorySize records, and they are exactly the
\* most recent ones in arrival order: the n-th result recorded since the
\* last clearHistory is the last record, the others are the results before
\* it without a gap, and nothing older than the last MaxHistorySize is kept.
\* After MaxHistorySize + 1 results the first one is absent from the
\* statistics and from the export.
C19_RingBuffer ==
    LET n == LastArrival
        exported == exportMetrics(metrics, sessionStartTime, now)
        stats == getPerformanceStats(metrics)
    IN  /\ Len(metrics) <= MaxHistorySize
        /\ Len(metrics) = IF n < MaxHistorySize THEN n ELSE MaxHistorySize
        /\ \A i \in 1..Len(metrics) :
               metrics[i].tokenCount = n - Len(metrics) + i
        /\ Len(exported.allMetrics) = Len(metrics)
        /\ stats.totalInferences = Len(metrics)
        /\ 2 * stats.totalTokens = Len(metrics) * (2 * n - Len(metrics) + 1)
        /\ n > MaxHistorySize
           => \A i \in 1..Len(exported.allMetrics) :
                  exported.allMetrics[i].tokenCount # 1

\* MaxHistorySize + 1 results have been recorded: the history is full and
\* starts at the second result.
C19_OldestEvicted ==
    /\ LastArrival = MaxHistorySize + 1
    /\ Len(metrics) = MaxHistorySize
    /\ metrics[1].tokenCount = 2
    /\ exportMetrics(metrics, sessionStartTime, now)
           .performanceStats.totalInferences
           = MaxHistorySize

----------------------------------------------------------------------------
(* Inference outcomes and the metrics manager *)

\* C20: every inference call that was delegated to the engine has reported
\* its outcome to the metrics manager when it settles, whether the engine
\* answered (the call returns) or failed (the call throws the engine's
\* error): the history, empty when the call was made, holds its record.
C20_OutcomeReported ==
    \A c \in Calls :
        (call[c].op = "infer" /\ call[c].pc = "done"
             /\ (call[c].result = "ok" \/ call[c].error = InferenceMessage))
        => metrics # <<>>

----------------------------------------------------------------------------
(* Failures found before the engine is asked *)

\* The messages of the failures that only the caller can remedy: the storage
\* permission was denied, or the model file is not there.
CallerActionMessages == {PermissionMessage, NotFoundMessage, ExtractMessage}

\* C21: a loadModel call that fails because the storage permission is denied
\* or because the model file is absent has never invoked the engine's load
\* (no attempt was made, nothing of it is on the bridge or on modelQueue) and
\* has waited for no retry delay.
C21_NoRetryWithoutArtifact ==
    \A c \in Calls :
        (call[c].op = "load" /\ call[c].error \in CallerActionMessages)
        => /\ call[c].tries = <<>>
           /\ call[c].waits = <<>>
           /\ c \notin EngineLoads
           /\ resp[c] = NoResp

\* A loadModel call on Android has failed for the missing model file, with
\* no attempt made.
C21_FailedForMissingFile ==
    \E c \in Calls :
        /\ call[c].op = "load"
        /\ call[c].pc = "done"
        /\ call[c].result = "false"
        /\ call[c].error = NotFoundMessage
        /\ status.error = NotFoundMessage
        /\ call[c].tries = <<>>

----------------------------------------------------------------------------
(* ModelManager.checkModelStatus and ModelManager.downloadModel *)

DownloadMessage == "Download failed with status: 404"

\* checkModelStatus up to its await: GemmaBridge.isModelLoaded is asked.
CheckModelStatus(c) ==
    /\ FreeSlot(c)
    /\ call' = [call EXCEPT ![c] =
           [IdleCall EXCEPT !.op = "check", !.pc = "native",
                            !.at = LifecycleState(status)]]
    /\ bridgeQ' = Append(bridgeQ, NativeCall("isModelLoaded", c, FALSE))
    /\ UNCHANGED <<status, config, device, core, modelFile, statusListeners,
                   metrics, modelQueue, llmInference, resp, sessionVars>>

\* The native isModelLoaded: it answers at once, off modelQueue, whether a
\* handle is held.
DispatchIsModelLoaded ==
    /\ bridgeQ # <<>>
    /\ Head(bridgeQ).method = "isModelLoaded"
    /\ bridgeQ' = Tail(bridgeQ)
    /\ resp' = [resp EXCEPT ![Head(bridgeQ).call] =
           ResolvedWith(llmInference # 0)]
    /\ UNCHANGED <<modelQueue, llmInference, device, core, modelFile,
                   statusListeners, sessionVars>>
    /\ UNCHANGED jsVars

\* isModelLoaded has answered: the answer is written to status.isLoaded.
CheckSettled(c) ==
    /\ Resumes(c, "check", "native")
    /\ resp[c].state = "resolved"
    /\ status' = updateStatus(status, [isLoaded |-> resp[c].value])
    /\ call' = [call EXCEPT ![c].pc = "done",
                  ![c].result = IF resp[c].value THEN "true" ELSE "false"]
    /\ resp' = [resp EXCEPT ![c] = NoResp]
    /\ UNCHANGED <<config, device, core, modelFile, metrics, bridgeQ,
                   modelQueue, llmInference, sessionVars>>
    /\ statusListeners' = Notified

\* The end of a download that succeeded.
DownloadDone(c) ==
    /\ status' = updateStatus(status,
           [isLoading |-> FALSE, loadProgress |-> 100,
            modelPath |-> ModelPath])
    /\ call' = [call EXCEPT ![c].pc = "done", ![c].result = "ok"]

\* The catch block of downloadModel, reached with the status s: the error
\* is noted and thrown again.
DownloadFailed(c, s) ==
    /\ status' = updateStatus(s,
           [isLoading |-> FALSE, error |-> DownloadMessage])
    /\ call' = [call EXCEPT ![c].pc = "done", ![c].result = "throw",
                            ![c].error = DownloadMessage]

\* downloadModel(modelUrl, fileName) up to its first await.
DownloadModel(c) ==
    /\ FreeSlot(c)
    /\ status' = updateStatus(status,
           [isLoading |-> TRUE, loadProgress |-> 0])
    /\ call' = [call EXCEPT ![c] =
           [IdleCall EXCEPT !.op = "download", !.pc = "exists",
                            !.at = LifecycleState(status)]]
    /\ UNCHANGED <<config, device, core, modelFile, metrics, sessionVars>>
    /\ statusListeners' = Notified
    /\ UNCHANGED nativeVars

\* FileManager.downloadModel: getInfoAsync has answered; a file that is
\* already there ends the download.
DownloadChecked(c, exists) ==
    /\ Resumes(c, "download", "exists")
    /\ IF exists
       THEN DownloadDone(c)
       ELSE /\ call' = [call EXCEPT ![c].pc = "fetch"]
            /\ UNCHANGED status
    /\ UNCHANGED <<config, device, core, modelFile, metrics, sessionVars>>
    /\ statusListeners' = Notified
    /\ UNCHANGED nativeVars

\* FileManager.downloadModel: downloadAsync has thrown, or it has answered
\* and the size of the file was read: the progress callback then reports the
\* whole file (80 percent of loadProgress) before the HTTP status is looked
\* at, 200 or another one.
DownloadOutcomes == {"ok", "status", "throw"}

DownloadFetched(c, outcome) ==
    /\ Resumes(c, "download", "fetch")
    /\ IF outcome = "ok" THEN DownloadDone(c)
       ELSE IF outcome = "status"
       THEN DownloadFailed(c, updateStatus(status, [loadProgress |-> 80]))
       ELSE DownloadFailed(c, status)
    /\ UNCHANGED <<config, device, core, modelFile, metrics, sessionVars>>
    /\ statusListeners' = Notified
    /\ UNCHANGED nativeVars

StatusSteps ==
    \/ \E c \in Calls : CheckModelStatus(c)
    \/ DispatchIsModelLoaded
    \/ \E c \in Calls : CheckSettled(c)
    \/ \E c \in Calls : DownloadModel(c)
    \/ \E c \in Calls, exists \in BOOLEAN : DownloadChecked(c, exists)
    \/ \E c \in Calls, outcome \in DownloadOutcomes :
          DownloadFetched(c, outcome)

\* loadModel, unloadModel, checkModelStatus and downloadModel calls, where
\* the model file is in place and valid and the permission may be denied.
NextStatus ==
    \/ \E c \in Calls : LoadModel(c, "none")
    \/ \E c \in Calls, hasPermission \in BOOLEAN :
          PermissionChecked(c, hasPermission)
    \/ \E c \in Calls, permissionGranted \in BOOLEAN :
          PermissionAnswered(c, permissionGranted)
    \/ \E c \in Calls : CapabilitiesKnown(c, device)
    \/ \E c \in Calls : PathResolved(c, TRUE)
    \/ \E c \in Calls : Validated(c, TRUE)
    \/ \E c \in Calls : LoadSettled(c)
    \/ \E c \in Calls : RetryTimer(c)
    \/ DispatchLoad
    \/ \E fileExists \in FileExists, e \in {"ok"} \cup EngineFailures :
          RunLoad(fileExists, e)
    \/ \E c \in Calls : Return(c)
    \/ UnloadSteps
    \/ StatusSteps

SpecStatus == Init /\ [][NextStatus]_vars

----------------------------------------------------------------------------
(* The lifecycle state *)

\* C22: the lifecycle state changes only along the allowed edges, and the
\* state READY is entered only from LOADING, never directly from
\* UNINITIALIZED or ERROR.  The edges are taken as the status shows them:
\* resolving the path is part of LOADING (isLoading is set from the start of
\* loadModel) and unloading is part of READY (the status is reset when the
\* unload has resolved).
C22_AllowedEdgesOnly ==
    [][LET AllowedEdges ==
               {<<"UNINITIALIZED", "LOADING">>, <<"LOADING", "READY">>,
                <<"LOADING", "ERROR">>, <<"READY", "UNINITIALIZED">>,
                <<"ERROR", "LOADING">>}
       IN  LifecycleState(status') # LifecycleState(status)
           => /\ <<LifecycleState(status), LifecycleState(status')>>
                     \in AllowedEdges
              /\ LifecycleState(status') = "READY"
                     => LifecycleState(status) = "LOADING"]_vars

\* C23: status.isLoaded and status.isLoading are never both true.
C23_OneStateAtATime == ~(status.isLoaded /\ status.isLoading)

----------------------------------------------------------------------------
(* The serial modelQueue, with the start and the end of a block apart *)

MaxServed == 2

\* A concurrent queue: any block may start.
MayStart_Concurrent(i) == TRUE

\* A queue that starts its newest block first.
MayStart_Newest(i) == i = Len(modelQueue)

\* modelQueue is a serial DispatchQueue: the block at its head is the one
\* that may start, and it stays at the head until it has ended.
MayStart(i) == i = 1

\* The blocks that have started and not ended.
Executing == {i \in DOMAIN modelQueue : modelQueue[i].running}

\* The queue starts a block.
StartBlock ==
    /\ \E i \in DOMAIN modelQueue :
           /\ MayStart(i)
           /\ ~modelQueue[i].running
           /\ modelQueue' = [modelQueue EXCEPT ![i].running = TRUE]
    /\ UNCHANGED <<bridgeQ, llmInference, resp, device, core, modelFile,
                   statusListeners, sessionVars>>
    /\ UNCHANGED jsVars

\* The block at the head, having started, ends.
EndLoad(fileExists, e) ==
    /\ modelQueue # <<>>
    /\ Head(modelQueue).running
    /\ RunLoad(fileExists, e)

EndUnload ==
    /\ modelQueue # <<>>
    /\ Head(modelQueue).running
    /\ RunUnload

EndInfer ==
    /\ modelQueue # <<>>
    /\ Head(modelQueue).running
    /\ RunInfer

\* The bridge delivers an invocation to the native module.
BridgeSteps ==
    \/ DispatchLoad
    \/ DispatchUnload
    \/ DispatchGenerate

\* modelQueue starts or ends a block.
QueueSteps ==
    \/ StartBlock
    \/ \E fileExists \in FileExists : EndLoad(fileExists, "ok")
    \/ EndUnload
    \/ EndInfer

\* What the native module does on its own.
EngineSteps ==
    \/ BridgeSteps
    \/ QueueSteps

\* The continuations of the calls on the JavaScript thread, where the
\* permission is granted, the model file is in place and valid and the
\* engine loads it.
ContinuationSteps ==
    \/ \E c \in Calls : PermissionChecked(c, TRUE)
    \/ \E c \in Calls : CapabilitiesKnown(c, device)
    \/ \E c \in Calls : PathResolved(c, TRUE)
    \/ \E c \in Calls : Validated(c, TRUE)
    \/ \E c \in Calls : LoadSettled(c)
    \/ \E c \in Calls : UnloadSettled(c)
    \/ \E c \in Calls : InferSettled(c)
    \/ \E c \in Calls : Return(c)

\* loadModel, unloadModel and generateResponse callers.
NextEngine ==
    \/ \E c \in Calls : LoadModel(c, "none")
    \/ \E c \in Calls : UnloadModel(c)
    \/ \E c \in Calls, prompt \in Prompts :
          RoomFor(MaxServed) /\ GenerateResponse(c, prompt)
    \/ ContinuationSteps
    \/ EngineSteps

SpecEngine == Init /\ [][NextEngine]_vars


\* The native module where neither the bridge nor the queue stops: the
\* bridge delivers the invocations and the queue runs its blocks.
SpecEngineFair ==
    Init /\ [][NextEngine]_vars /\ WF_vars(BridgeSteps) /\ WF_vars(QueueSteps)

----------------------------------------------------------------------------
(* Order of service *)

\* The inference of the call c has not reached the end of its block: the
\* invocation is on the bridge or the block is on modelQueue.
Unfinished(c) ==
    \/ \E i \in DOMAIN bridgeQ :
           bridgeQ[i].call = c /\ bridgeQ[i].method = "generateResponse"
    \/ c \in EngineInferences

\* The engine is executing the inference of the call c.
InEngine(c) ==
    \E i \in Executing :
        modelQueue[i].call = c /\ modelQueue[i].kind = "infer"

\* C24: inference requests made in READY are executed by the engine in
\* arrival order: the inference of a request is not started while a request
\* made before it has not finished; and every request that was accepted is
\* eventually answered.
C24_ServedInArrivalOrder ==
    /\ [](\A c \in Calls : \A d \in call[c].after :
             (call[c].at = "READY" /\ call[d].at = "READY" /\ InEngine(c))
             => ~Unfinished(d))
    /\ \A c \in Calls :
           (call[c].op = "infer" /\ call[c].pc = "native"
                /\ call[c].at = "READY")
           ~> (resp[c].state # "none" \/ call[c].pc # "native")

\* The engine executes a request made in READY while an earlier one, made
\* in READY too and now finished, has not yet been returned to its caller.
C24_SecondServedAfterFirst ==
    \E c \in Calls : \E d \in call[c].after :
        /\ call[c].at = "READY"
        /\ call[d].at = "READY"
        /\ InEngine(c)
        /\ resp[d].state = "resolved"

----------------------------------------------------------------------------
(* Mutual exclusion in the engine *)

\* C25: at most one of load, unload and inference is executing in the
\* engine at any time, whatever the interleaving of the loadModel,
\* unloadModel and generateResponse callers.
C25_OneAtATime == Cardinality(Executing) <= 1

\* An inference is executing while a load or an unload, requested
\* meanwhile, waits on modelQueue behind it.
C25_OthersWaitBehind ==
    \E i \in Executing : \E j \in DOMAIN modelQueue :
        /\ modelQueue[i].kind = "infer"
        /\ modelQueue[j].kind \in {"load", "unload"}
        /\ ~modelQueue[j].running

----------------------------------------------------------------------------
(* ModelManager.onStatusChange and the notification of updateStatus *)

MaxListeners == 2

\* The listener functions of the application: every subscription of the
\* hook useGemmaModel passes a function of its own.
Listeners == 1..MaxListeners

Subscribed == {statusListeners[i] : i \in DOMAIN statusListeners}

\* onStatusChange(listener): the listener is pushed.
OnStatusChange(listener) ==
    /\ Drained
    /\ listener \notin Subscribed
    /\ statusListeners' = Append(statusListeners, listener)
    /\ UNCHANGED <<status, config, device, core, modelFile, call, metrics,
                   sessionVars>>
    /\ UNCHANGED nativeVars

\* The application calls the function returned by onStatusChange(listener).
Unsubscribe(listener) ==
    /\ Drained
    /\ listener \in Subscribed
    /\ statusListeners' = unsubscribe(statusListeners, listener)
    /\ UNCHANGED <<status, config, device, core, modelFile, call, metrics,
                   sessionVars>>
    /\ UNCHANGED nativeVars

\* A notification that goes through the listeners twice.
notify_Twice(listeners, s) ==
    [i \in 1..(2 * Len(listeners)) |->
        [listener |-> listeners[((i - 1) % Len(listeners)) + 1],
         status |-> s]]

\* The second statement of updateStatus: statusListeners.forEach calls the
\* listeners in order with the new status.
notify(listeners, s) ==
    [i \in 1..Len(listeners) |-> [listener |-> listeners[i], status |-> s]]

\* Subscriptions at any time during concurrent loadModel calls.
NextObservers ==
    \/ \E listener \in Listeners : OnStatusChange(listener)
    \/ \E listener \in Listeners : Unsubscribe(listener)
    \/ NextLoad

SpecObservers == Init /\ [][NextObservers]_vars

----------------------------------------------------------------------------
(* The session clock of the MetricsManager *)

MaxClock == 2

\* Time passes: Date.now() reads a later value.
Tick ==
    /\ now < MaxClock
    /\ now' = now + 1
    /\ UNCHANGED <<status, config, device, core, modelFile, call, metrics,
                   statusListeners, sessionStartTime>>
    /\ UNCHANGED nativeVars

\* Results recorded and the history cleared while time passes.
NextSession ==
    \/ RecordSamples
    \/ ClearHistory
    \/ Tick

SpecSession == Init /\ [][NextSession]_vars

\* C27: exportMetrics called right after clearHistory, the clock reading
\* the same, yields no records, totalInferences = 0 and a session duration
\* of 0, whatever was recorded before.
C27_ExportAfterClear ==
    [][ClearHistory
       => LET exported == exportMetrics(metrics', sessionStartTime', now')
          IN  /\ exported.allMetrics = <<>>
              /\ exported.performanceStats.totalInferences = 0
              /\ exported.sessionInfo.duration = 0]_vars

\* The history was cleared after time had passed since the session began.
C27_ClearedLater ==
    /\ metrics = <<>>
    /\ sessionStartTime = now
    /\ now > 0

----------------------------------------------------------------------------
(* Failures of loadModel as seen by the caller *)

\* C28: loadModel never throws: a call that has settled has returned true
\* or false, and when it failed (denied permission, missing file, failed
\* validation, attempts used up) it returned false and the status shows
\* the failure: isLoaded = false, isLoading = false and its error.
C28_FailureIsAResult ==
    \A c \in Calls :
        (call[c].op = "load" /\ call[c].pc = "done")
        => /\ call[c].result \in {"true", "false"}
           /\ call[c].error # NULL
              => /\ call[c].result = "false"
                 /\ ~status.isLoaded
                 /\ ~status.isLoading
                 /\ status.error = call[c].error
                 /\ LifecycleState(status) = "ERROR"

\* A loadModel call has used up its attempts and has returned false.
C28_ExhaustedReturnsFalse ==
    \E c \in Calls :
        /\ call[c].op = "load"
        /\ call[c].pc = "done"
        /\ call[c].result = "false"
        /\ Len(call[c].tries) = config.retryAttempts
        /\ call[c].error = ExhaustedMessage(device.platform)
        /\ status.error = ExhaustedMessage(device.platform)

----------------------------------------------------------------------------
(* What inference and clearMetrics leave alone *)

\* C29: a step in which an inference call is made, settles (with a result
\* or with the engine's failure) or is returned, or in which the metrics
\* change (a record is added, the history is cleared), leaves the status of
\* the ModelManager as it is; updateStatus not being called, no status
\* listener is notified.
C29_InferenceLeavesStatus ==
    [][((\E c \in Calls :
             /\ call[c].op = "infer" \/ call'[c].op = "infer"
             /\ call'[c] # call[c])
        \/ metrics' # metrics
        \/ sessionStartTime' # sessionStartTime)
       => /\ status' = status
          /\ statusListeners' = statusListeners]_vars

\* An inference made in READY has failed in the engine, and the state is
\* still READY.
C29_FailedInferenceStillReady ==
    \E c \in Calls :
        /\ call[c].op = "infer"
        /\ call[c].pc = "done"
        /\ call[c].at = "READY"
        /\ call[c].error = InferenceMessage
        /\ LifecycleState(status) = "READY"


----------------------------------------------------------------------------
(* FileManager: the model file before the engine sees it *)

\* getModelPath: the path in the models directory when a file is there,
\* null when none is.
getModelPath(file) == IF file.exists THEN ModelPath ELSE NULL

\* What getModelInfo returns where the source returns null.
NoModelInfo == [size |-> 0, isDownloaded |-> FALSE]

\* getModelInfo: the size of the file when it is there, null when it is
\* not.
getModelInfo(file) ==
    IF file.exists THEN [size |-> file.size, isDownloaded |-> TRUE]
    ELSE NoModelInfo

\* A validation for which a file that is there is a valid one.
validateModel_AnySize(file, expectedSize) ==
    getModelInfo(file) # NoModelInfo

\* validateModel: the file is there, has MinModelSize bytes or more and,
\* when an expected size is given (0: none), is within MinModelSize bytes
\* of it.
validateModel(file, expectedSize) ==
    LET modelInfo == getModelInfo(file)
        abs(n) == IF n < 0 THEN 0 - n ELSE n
    IN  IF modelInfo = NoModelInfo THEN FALSE
        ELSE IF modelInfo.size < MinModelSize THEN FALSE
        ELSE IF expectedSize # 0
                /\ abs(modelInfo.size - expectedSize) > MinModelSize
        THEN FALSE
        ELSE TRUE

\* The model file is any of ModelFiles and stays what it is: nothing is
\* downloaded or deleted while the loads run.
InitArtifact ==
    /\ status = InitialStatus
    /\ config = InitialConfig
    /\ device \in Devices
    /\ call = [c \in Calls |-> IdleCall]
    /\ bridgeQ = <<>>
    /\ modelQueue = <<>>
    /\ llmInference = 0
    /\ resp = [c \in Calls |-> NoResp]
    /\ metrics = <<>>
    /\ statusListeners = <<>>
    /\ core = InitialCore
    /\ modelFile \in ModelFiles
    /\ now = 0
    /\ sessionStartTime = now

\* The path resolution of a load: on both platforms the path is returned
\* when the file is in the models directory; where it is not, the Android
\* loader gets null and the iOS loader finds nothing to extract.
ResolvePath(c) == PathResolved(c, getModelPath(modelFile) # NULL)

\* The validation of a load: validateModel(modelFileName), no expected size.
ValidateFile(c) == Validated(c, validateModel(modelFile, 0))

\* Concurrent loadModel calls where the file manager answers from the file.
NextArtifact ==
    \/ \E c \in Calls, pref \in Prefs : LoadModel(c, pref)
    \/ \E c \in Calls, hasPermission \in BOOLEAN :
          PermissionChecked(c, hasPermission)
    \/ \E c \in Calls, permissionGranted \in BOOLEAN :
          PermissionAnswered(c, permissionGranted)
    \/ \E c \in Calls, deviceInfo \in {device, UnknownDevice} :
          CapabilitiesKnown(c, deviceInfo)
    \/ \E c \in Calls : ResolvePath(c)
    \/ \E c \in Calls : ValidateFile(c)
    \/ \E c \in Calls : LoadSettled(c)
    \/ \E c \in Calls : RetryTimer(c)
    \/ DispatchLoad
    \/ \E fileExists \in FileExists, e \in {"ok"} \cup EngineFailures :
          RunLoad(fileExists, e)
    \/ \E c \in Calls : Return(c)

SpecArtifact == InitArtifact /\ [][NextArtifact]_vars

\* C30: while the model file is smaller than MinModelSize bytes, the load
\* primitive of the engine is never invoked: no loadModel call has made an
\* attempt, no load is requested of or running in the engine, no model is
\* held, and every loadModel call that has settled has returned false.
C30_SmallFileNeverReachesEngine ==
    (modelFile.exists /\ modelFile.size < MinModelSize)
    => /\ EngineLoads = {}
       /\ llmInference = 0
       /\ \A c \in Calls :
             call[c].op = "load"
             => /\ call[c].tries = <<>>
                /\ call[c].pc = "done" => call[c].result = "false"

\* A loadModel call has failed the validation of a file one byte short of
\* MinModelSize.
C30_OneByteShortRejected ==
    \E c \in Calls :
        /\ modelFile.exists
        /\ modelFile.size = MinModelSize - 1
        /\ call[c].op = "load"
        /\ call[c].pc = "done"
        /\ call[c].result = "false"
        /\ call[c].error = ValidationMessage
        /\ status.error = ValidationMessage


----------------------------------------------------------------------------
(* Loads while downloadModel and checkModelStatus calls come in between *)

\* C31: with downloadModel and checkModelStatus calls interleaved,
\* status.isLoading is true for as long as an accepted loadModel call has
\* not settled, so that at most one loadModel call is in flight and at most
\* one load is requested of or running in the engine.
C31_LoadingFlagCoversTheLoad ==
    /\ LoadsInFlight # {} => status.isLoading
    /\ Cardinality(LoadsInFlight) <= 1
    /\ Cardinality(EngineLoads) <= 1


----------------------------------------------------------------------------
(* The status and the engine when nothing is in flight *)

\* No call of the application is under way and the native side has no
\* work left.
Quiescent ==
    /\ \A c \in Calls : call[c].pc \in {"idle", "done"}
    /\ bridgeQ = <<>>
    /\ modelQueue = <<>>

\* C32: whenever no operation is in flight, status.isLoaded is true exactly
\* when the engine holds a model handle.
C32_StatusMatchesEngine ==
    Quiescent => (status.isLoaded <=> llmInference # 0)


----------------------------------------------------------------------------
(* GemmaBridgeModule.kt: the native bridge that loads the model lazily *)

maxLoadAttempts == 3
RetryStepMs == 2000
RescheduleMs == 2000

\* modelLoadAttempts is counted up to MaxLoadCount and stays there.
MaxLoadCount == 5

\* The application calls generateResponse while the executor has fewer than
\* MaxTasks tasks waiting.
MaxTasks == 4

\* A task handed to backgroundExecutor: "init" the block of
\* initializeModelIfNeeded, "retry" the block of handleModelLoadFailure,
\* "again" the block that calls generateResponse once more, "infer" the
\* inference itself.
Task(kind, p, delay) == [kind |-> kind, promise |-> p, delay |-> delay]

\* handleModelLoadFailure: another attempt is handed to the executor, after
\* modelLoadAttempts * 2 seconds, while the attempts are below the limit.
handleModelLoadFailure(b) ==
    IF b.modelLoadAttempts < maxLoadAttempts
    THEN [b EXCEPT !.backgroundExecutor =
             Append(@, Task("retry", 0, b.modelLoadAttempts * RetryStepMs))]
    ELSE b

\* initializeModel: an attempt is counted and the engine creates the model
\* (loads) or throws.
initializeModel(b, loads) ==
    IF b.llmInference THEN b
    ELSE LET counted ==
                 [b EXCEPT !.modelLoadAttempts =
                      IF @ < MaxLoadCount THEN @ + 1 ELSE @]
         IN  IF loads
             THEN [counted EXCEPT !.llmInference = TRUE,
                                  !.modelLoadAttempts = 0]
             ELSE handleModelLoadFailure(counted)

\* initializeModelIfNeeded, by a thread that reads llmInference as loaded
\* and isInitializing as initializing.
initializeModelIfNeeded(b, loaded, initializing) ==
    IF loaded \/ initializing THEN b
    ELSE [b EXCEPT !.isInitializing = TRUE,
                   !.backgroundExecutor = Append(@, Task("init", 0, 0))]

\* generateResponse after initializeModelIfNeeded: without a model the call
\* is handed to the executor to be made again in 2 seconds when a load is
\* under way and rejected when none is; with a model the inference is
\* handed to the executor.
afterInitialization(b, p, loaded, initializing) ==
    IF ~loaded
    THEN IF initializing
         THEN [b EXCEPT !.backgroundExecutor =
                  Append(@, Task("again", p, RescheduleMs))]
         ELSE [b EXCEPT !.promise[p] = "MODEL_NOT_FOUND"]
    ELSE [b EXCEPT !.backgroundExecutor = Append(@, Task("infer", p, 0))]

\* generateResponse(prompt, promise) called by the application, up to the
\* return of initializeModelIfNeeded.
LazyGenerateResponse(p, prompt) ==
    /\ core.at = 0
    /\ Len(core.backgroundExecutor) < MaxTasks
    /\ core.promise[p] = "none"
    /\ \A q \in Promises : q < p => core.promise[q] # "none"
    /\ core' =
          IF prompt.length = 0 \/ prompt.length > MaxPromptLength
          THEN [core EXCEPT !.promise[p] = "INFERENCE_ERROR"]
          ELSE LET b == initializeModelIfNeeded(core, core.seen.llmInference,
                            core.seen.isInitializing)
               IN  [b EXCEPT !.promise[p] = "pending",
                             !.at = p,
                             !.seen.isInitializing =
                                 IF b.backgroundExecutor
                                    # core.backgroundExecutor
                                 THEN TRUE ELSE @]
    /\ UNCHANGED managerVars

\* The thread of the callers comes to see what the executor thread wrote.
LazySees ==
    /\ core.seen # [llmInference |-> core.llmInference,
                    isInitializing |-> core.isInitializing]
    /\ core' = [core EXCEPT !.seen = [llmInference |-> core.llmInference,
                                      isInitializing |-> core.isInitializing]]
    /\ UNCHANGED managerVars

\* The call of the application goes on after initializeModelIfNeeded.
LazyLooks(p) ==
    /\ core.at = p
    /\ p # 0
    /\ core' = [afterInitialization(core, p, core.seen.llmInference,
                    core.seen.isInitializing) EXCEPT !.at = 0]
    /\ UNCHANGED managerVars

\* backgroundExecutor (a single thread) runs its next task.
LazyRun(loads, answers) ==
    /\ core.backgroundExecutor # <<>>
    /\ LET task == Head(core.backgroundExecutor)
           b == [core EXCEPT !.backgroundExecutor = Tail(@)]
       IN  core' =
             CASE task.kind = "init" ->
                    [initializeModel(b, loads) EXCEPT !.isInitializing = FALSE]
               [] task.kind = "retry" -> initializeModel(b, loads)
               [] task.kind = "again" ->
                    LET c == initializeModelIfNeeded(b, b.llmInference,
                                 b.isInitializing)
                    IN  afterInitialization(c, task.promise, c.llmInference,
                            c.isInitializing)
               [] task.kind = "infer" ->
                    [b EXCEPT !.promise[task.promise] =
                         IF answers THEN "resolved" ELSE "INFERENCE_ERROR"]
    /\ UNCHANGED managerVars

\* The application takes the result of a settled promise.
LazyReturn(p) ==
    /\ core.promise[p] \notin {"none", "pending"}
    /\ core' = [core EXCEPT !.promise[p] = "none"]
    /\ UNCHANGED managerVars

\* What the two native threads do.
LazyCallerSteps ==
    \/ \E p \in Promises : LazyLooks(p)
    \/ LazySees

LazyExecutorSteps == \E loads \in BOOLEAN, answers \in BOOLEAN :
                         LazyRun(loads, answers)

NextLazy ==
    \/ \E p \in Promises, prompt \in Prompts : LazyGenerateResponse(p, prompt)
    \/ LazyCallerSteps
    \/ LazyExecutorSteps
    \/ \E p \in Promises : LazyReturn(p)

SpecLazy == Init /\ [][NextLazy]_vars

\* The native threads are not put off for ever.
SpecLazyFair ==
    Init /\ [][NextLazy]_vars
    /\ WF_vars(LazyCallerSteps) /\ WF_vars(LazyExecutorSteps)

\* C33: in the bridge that loads lazily every generateResponse call
\* settles: a promise that is pending is resolved or rejected in the end,
\* with MODEL_NOT_FOUND when the model cannot be loaded.
C33_EveryCallSettles ==
    \A p \in Promises :
        (core.promise[p] = "pending") ~> (core.promise[p] # "pending")

\* C34: in the bridge that loads lazily the failed load attempts in a row
\* never exceed maxLoadAttempts, whatever generateResponse calls arrive,
\* and a retry is handed to the executor only below the limit, with a
\* delay of modelLoadAttempts * 2 seconds.
C34_AttemptsWithinLimit ==
    /\ core.modelLoadAttempts <= maxLoadAttempts
    /\ \A i \in DOMAIN core.backgroundExecutor :
          core.backgroundExecutor[i].kind = "retry"
          => core.backgroundExecutor[i].delay \in
                 {n * RetryStepMs : n \in 1..(maxLoadAttempts - 1)}


----------------------------------------------------------------------------
(* Degradation that is there is reported *)

\* C35: with at least 2 * windowSize records retained, whenever the mean
\* duration of the last windowSize records is more than 1.2 times the mean
\* duration of the windowSize records before them,
\* isPerformanceDegrading(windowSize) is true.
C35_SlowerIsReported ==
    \A windowSize \in WindowSizes :
        (Len(metrics) >= 2 * windowSize
         /\ 10 * SumSeq(RecentWindow(metrics, windowSize))
                > 12 * SumSeq(PreviousWindow(metrics, windowSize)))
        => isPerformanceDegrading(metrics, windowSize)

\* The last two records (300 ms on average) are half slower than the two
\* before them (200 ms on average), and the slowdown is reported.
C35_HalfSlowerReported ==
    /\ Durations(metrics) = <<100, 300, 300, 300>>
    /\ isPerformanceDegrading(metrics, 2)


----------------------------------------------------------------------------
(* Listeners that unsubscribe while the listeners are being called *)

\* Subscriptions at any time during concurrent loadModel calls, one of them
\* of a listener that unsubscribes itself when it is called.
NextReentrant ==
    \/ OnStatusChange(Once)
    \/ NextObservers

SpecReentrant == Init /\ [][NextReentrant]_vars

\* C36: in every step that updates the status, every listener that is
\* subscribed and is not unsubscribed in the step is called, also when the
\* callback of another listener unsubscribes during the notification.
C36_EverySubscriberNotified ==
    [][status' # status
       => \A listener \in Subscribed :
              listener \in Subscribed'
              => \E i \in DOMAIN Called(statusListeners) :
                     Called(statusListeners)[i] = listener]_vars


----------------------------------------------------------------------------
(* Unsubscribing *)

\* The name of the next listener to subscribe: listeners are named in the
\* order in which they subscribe, after the latest one that is subscribed.
FreshListener ==
    IF Subscribed \cap Listeners = {} THEN 1
    ELSE 1 + CHOOSE l \in Subscribed \cap Listeners :
                 \A m \in Subscribed \cap Listeners : m <= l

SubscribeFresh ==
    /\ FreshListener \in Listeners
    /\ OnStatusChange(FreshListener)

\* Subscriptions and unsubscriptions at any time during concurrent
\* loadModel calls.
NextSubscriptions ==
    \/ SubscribeFresh
    \/ OnStatusChange(Once)
    \/ \E listener \in Listeners \cup {Once} : Unsubscribe(listener)
    \/ NextLoad

SpecSubscriptions == Init /\ [][NextSubscriptions]_vars

\* C37: the step in which the unsubscribe function of a listener that is
\* subscribed once is called takes that listener out and leaves the other
\* subscriptions in place and in order, and an update of the status calls
\* subscribed listeners only: a listener is not called after it has
\* unsubscribed.
C37_UnsubscribedStaysOut ==
    [][/\ \A listener \in Listeners \cup {Once} :
              (listener \in Subscribed /\ listener \notin Subscribed')
              => LET Others(l) == l # listener
                 IN  statusListeners' = SelectSeq(statusListeners, Others)
       /\ status' # status
          => \A i \in DOMAIN Called(statusListeners) :
                 Called(statusListeners)[i] \in Subscribed]_vars

\* The first of two listeners has unsubscribed, the second is still
\* subscribed, and the model has become READY.
C37_FirstGoneSecondStays ==
    /\ statusListeners = <<2>>
    /\ LifecycleState(status) = "READY"


----------------------------------------------------------------------------
(* The backend that the status reports *)

\* C38: whenever no operation is in flight, status.backend is set exactly
\* when status.isLoaded is true.
C38_BackendIffLoaded ==
    Quiescent => (status.backend # NULL <=> status.isLoaded)


----------------------------------------------------------------------------
(* MetricsManager.getPercentiles *)

FractionEqual(a, b) == a.num * b.den = b.num * a.den

FractionAtMost(a, b) == ~FractionGreater(a, b)

\* Array.prototype.sort((a, b) => a - b): the numbers in ascending order.
RECURSIVE sortAscending(_)
sortAscending(numbers) ==
    IF numbers = <<>> THEN <<>>
    ELSE LET least == MinOf(numbers)
             index == CHOOSE i \in DOMAIN numbers : numbers[i] = least
         IN  <<least>>
             \o sortAscending(SubSeq(numbers, 1, index - 1)
                              \o SubSeq(numbers, index + 1, Len(numbers)))

\* A percentile that takes the sample below the rank.
percentile_Lower(sortedArray, p) ==
    IF Len(sortedArray) = 0 THEN Fraction(0, 1)
    ELSE Fraction(sortedArray[((p * (Len(sortedArray) - 1)) \div 100) + 1], 1)

\* percentile(sortedArray, percentile): index = percentile / 100 * (length
\* - 1); the sample at the index when it is whole, otherwise the samples
\* below and above it weighted by the fractional part.  Indices of the
\* source start at 0, those of the sequence at 1.
percentile(sortedArray, p) ==
    IF Len(sortedArray) = 0 THEN Fraction(0, 1)
    ELSE LET scaled == p * (Len(sortedArray) - 1)
             lower == scaled \div 100
             upper == IF scaled % 100 = 0 THEN lower ELSE lower + 1
             weight == Fraction(scaled % 100, 100)
         IN  IF lower = upper THEN Fraction(sortedArray[lower + 1], 1)
             ELSE Fraction(sortedArray[lower + 1] * (100 - weight.num)
                           + sortedArray[upper + 1] * weight.num, 100)

\* getPercentiles("inferenceTimeMs").
getPercentiles(history) ==
    IF Len(history) = 0
    THEN [p50 |-> Fraction(0, 1), p90 |-> Fraction(0, 1),
          p95 |-> Fraction(0, 1), p99 |-> Fraction(0, 1)]
    ELSE LET values == sortAscending(Durations(history))
         IN  [p50 |-> percentile(values, 50), p90 |-> percentile(values, 90),
              p95 |-> percentile(values, 95), p99 |-> percentile(values, 99)]

====
